---- MODULE Spec2Model ----
(***************************************************************************)
(* Model of get_product.py: the BigQuery retrieval / selection query, the  *)
(* normalisation of the generated text (_extract_text_from_possible_json), *)
(* the extraction of SELECTED_PRODUCT_ID (parse_selected_product_id), the  *)
(* detail lookup and the error handling of fetch_selected_product / main.  *)
(*                                                                         *)
(* Python strings are sequences of one-character strings, so that strip,   *)
(* splitlines, lower, startswith, slicing and json.loads are computed on   *)
(* the characters.  An Optional[str] is a record [present, v].             *)
(***************************************************************************)
EXTENDS Integers, Sequences, FiniteSets, TLC

VARIABLES
  pc,               \* stage the run has completed ("Start" .. "Resolved", "Failed")
  trace,            \* the stages completed so far, in order
  store,            \* the products table: set of [product_id, has_embedding]
  candidates,       \* rows of the top_candidates CTE, in distance order
  found_products,   \* column found_products of the result row
  prompt,           \* rows handed to ML.GENERATE_TEXT (column prompt)
  selected_product, \* column selected_product of the result row (TO_JSON_STRING)
  selected_text,    \* selected_text after _extract_text_from_possible_json
  selected_id,      \* parse_selected_product_id(selected_text)
  result,           \* the dict fetch_selected_product returns
  failure,          \* the exception that left fetch_selected_product
  failedAt,         \* the stage the run was in when the exception was raised
  genCalls,         \* rows ML.GENERATE_TEXT was applied to
  lookupCalls,      \* details queries issued
  stderr,           \* what main printed to sys.stderr
  exit_code,        \* -1 while main runs, then the process exit status
  pshape,           \* how the parser's input text was put together (lines)
  nshape            \* how the normaliser's raw input was put together

vars == <<pc, trace, store, candidates, found_products, prompt, selected_product,
          selected_text, selected_id, result, failure, failedAt, genCalls,
          lookupCalls, stderr, exit_code, pshape, nshape>>

-----------------------------------------------------------------------------
(* Optional[str] *)

None == [present |-> FALSE, v |-> <<>>]

Some(s) == [present |-> TRUE, v |-> s]

-----------------------------------------------------------------------------
(* Python str methods on character sequences *)

\* the characters str.strip() removes and the model's alphabets can hold
White == {" ", "\t", "\n", "\r"}

\* the line boundaries of str.splitlines() the model's alphabets can hold
LineBreaks == {"\n", "\r"}

UpperLetters == <<"A","B","C","D","E","F","G","H","I","J","K","L","M",
                  "N","O","P","Q","R","S","T","U","V","W","X","Y","Z">>

LowerLetters == <<"a","b","c","d","e","f","g","h","i","j","k","l","m",
                  "n","o","p","q","r","s","t","u","v","w","x","y","z">>

\* the lower-case letter of each upper-case letter
ToLower == [c \in {UpperLetters[i] : i \in 1..Len(UpperLetters)} |->
              LowerLetters[CHOOSE i \in 1..Len(UpperLetters) : UpperLetters[i] = c]]

LowerChar(c) == IF c \in DOMAIN ToLower THEN ToLower[c] ELSE c

\* str.lower()
Lower(s) == [i \in 1..Len(s) |-> LowerChar(s[i])]

\* str.startswith(p)
StartsWith(s, p) == Len(s) >= Len(p) /\ SubSeq(s, 1, Len(p)) = p

\* str.endswith(p)
EndsWith(s, p) == Len(s) >= Len(p) /\ SubSeq(s, Len(s) - Len(p) + 1, Len(s)) = p

\* str.strip()
Strip(s) ==
  IF \A i \in 1..Len(s) : s[i] \in White THEN <<>>
  ELSE LET n == Len(s)
           a == CHOOSE i \in 1..n : s[i] \notin White /\ \A j \in 1..(i - 1) : s[j] \in White
           k == CHOOSE i \in 0..(n - 1) :
                  s[n - i] \notin White /\ \A j \in 0..(i - 1) : s[n - j] \in White
       IN  SubSeq(s, a, n - k)

\* s[1:-1]
Inner(s) == SubSeq(s, 2, Len(s) - 1)

\* s[:-1]
DropLast(s) == SubSeq(s, 1, Len(s) - 1)

\* s.split(sep, 1)[1] for a one-character sep that occurs in s
AfterFirst(s, sep) ==
  LET at == CHOOSE i \in 1..Len(s) : s[i] = sep /\ \A j \in 1..(i - 1) : s[j] # sep
  IN  SubSeq(s, at + 1, Len(s))

\* p in s
Contains(s, p) ==
  \E i \in 1..(Len(s) - Len(p) + 1) : SubSeq(s, i, i + Len(p) - 1) = p

RECURSIVE SplitLines(_)
\* str.splitlines(): "\r\n" is one boundary, no empty last line
SplitLines(s) ==
  IF s = <<>> THEN <<>>
  ELSE LET at   == IF \A i \in 1..Len(s) : s[i] \notin LineBreaks THEN Len(s) + 1
                   ELSE CHOOSE i \in 1..Len(s) :
                          s[i] \in LineBreaks /\ \A j \in 1..(i - 1) : s[j] \notin LineBreaks
           skip == IF at < Len(s) /\ s[at] = "\r" /\ s[at + 1] = "\n" THEN 2 ELSE 1
       IN  <<SubSeq(s, 1, at - 1)>> \o SplitLines(SubSeq(s, at + skip, Len(s)))

RECURSIVE Join(_, _)
\* sep.join(parts)
Join(parts, sep) ==
  IF parts = <<>> THEN <<>>
  ELSE IF Len(parts) = 1 THEN parts[1]
  ELSE parts[1] \o sep \o Join(Tail(parts), sep)

-----------------------------------------------------------------------------
(* parse_selected_product_id *)

KeyPrefix == <<"s","e","l","e","c","t","e","d","_","p","r","o","d","u","c","t","_","i","d",":">>

\* the line is not empty and, stripped and lowered, starts with the key
LineMatches(line) == line # <<>> /\ StartsWith(Lower(Strip(line)), KeyPrefix)

\* one pair of [] or () around the value is removed
StripBrackets(value) ==
  IF \/ (StartsWith(value, <<"[">>) /\ EndsWith(value, <<"]">>))
     \/ (StartsWith(value, <<"(">>) /\ EndsWith(value, <<")">>))
  THEN Strip(Inner(value))
  ELSE value

\* the quotes are left where they are
StripQuotes_kept(value) == value

\* one pair of quotes around the value is removed
StripQuotes(value) ==
  IF \/ (StartsWith(value, <<"\"">>) /\ EndsWith(value, <<"\"">>))
     \/ (StartsWith(value, <<"'">>) /\ EndsWith(value, <<"'">>))
  THEN Strip(Inner(value))
  ELSE value

\* one trailing comma is removed
StripComma(value) ==
  IF EndsWith(value, <<",">>) THEN Strip(DropLast(value)) ELSE value

\* the value of a matching line: brackets, then quotes, then the comma
LineValue(line) ==
  StripComma(StripQuotes(StripBrackets(Strip(AfterFirst(Strip(line), ":")))))

\* value or None
OrNone(value) == IF value = <<>> THEN None ELSE Some(value)

\* the first matching line whose value is not empty returns
ScanLines_nonempty(lines) ==
  LET hits == {i \in 1..Len(lines) : LineMatches(lines[i]) /\ LineValue(lines[i]) # <<>>}
  IN  IF hits = {} THEN None
      ELSE OrNone(LineValue(lines[CHOOSE i \in hits : \A j \in hits : i <= j]))

\* the loop over text.splitlines(): the first matching line returns
ScanLines(lines) ==
  LET hits == {i \in 1..Len(lines) : LineMatches(lines[i])}
  IN  IF hits = {} THEN None
      ELSE OrNone(LineValue(lines[CHOOSE i \in hits : \A j \in hits : i <= j]))

parse_selected_product_id(text) ==
  IF text = <<>> THEN None ELSE ScanLines(SplitLines(text))

-----------------------------------------------------------------------------
(* json.loads: the values it returns and the texts it accepts.  A value is *)
(* [k, t, s, kids]: t its type ("str", "num", "lit", "obj", "arr"), s the  *)
(* characters of a string, number or literal, kids the items of a list or  *)
(* the members of a dict, and k the key a dict member is stored under.     *)

JStr(s) == [k |-> <<>>, t |-> "str", s |-> s, kids |-> <<>>]

JNum(s) == [k |-> <<>>, t |-> "num", s |-> s, kids |-> <<>>]

JLit(s) == [k |-> <<>>, t |-> "lit", s |-> s, kids |-> <<>>]

JArr(items) == [k |-> <<>>, t |-> "arr", s |-> <<>>, kids |-> items]

JObj(members) == [k |-> <<>>, t |-> "obj", s |-> <<>>, kids |-> members]

Member(key, val) == [val EXCEPT !.k = key]

JNull == JLit(<<"n","u","l","l">>)

JsonWs == {" ", "\t", "\n", "\r"}

Digits == {"0","1","2","3","4","5","6","7","8","9"}

Literals == {<<"t","r","u","e">>, <<"f","a","l","s","e">>, <<"n","u","l","l">>}

ParseFail == [ok |-> FALSE, val |-> JNull, pos |-> 0]

ParseOk(val, pos) == [ok |-> TRUE, val |-> val, pos |-> pos]

\* the first position from i on that holds no JSON whitespace
SkipWs(s, i) ==
  IF \A j \in i..Len(s) : s[j] \in JsonWs THEN Len(s) + 1
  ELSE CHOOSE j \in i..Len(s) : s[j] \notin JsonWs /\ \A m \in i..(j - 1) : s[m] \in JsonWs

\* the character an escape sequence \c stands for ("" when json rejects it)
Unescape(c) ==
  CASE c = "\"" -> "\""
    [] c = "\\" -> "\\"
    [] c = "/"  -> "/"
    [] c = "n"  -> "\n"
    [] c = "t"  -> "\t"
    [] c = "r"  -> "\r"
    [] OTHER    -> ""

\* the number of backslashes in s that end right before position p, from i on
BackslashRun(s, i, p) ==
  CHOOSE n \in 0..(p - i) :
    /\ \A q \in (p - n)..(p - 1) : s[q] = "\\"
    /\ (n = p - i \/ s[p - n - 1] # "\\")

\* position p of s is taken by the backslash before it (the literal starts at i)
Escaped(s, i, p) == BackslashRun(s, i, p) % 2 = 1

\* the characters of a string literal whose opening quote is at i - 1: it
\* ends at the first quote no backslash takes, holds no raw control
\* character and only the escapes Unescape knows
ScanString(s, i, acc) ==
  LET IsEnd(p) == s[p] = "\"" /\ ~Escaped(s, i, p)
      to   == CHOOSE p \in i..Len(s) : IsEnd(p) /\ \A m \in i..(p - 1) : ~IsEnd(m)
      IsIntro(p) == s[p] = "\\" /\ ~Escaped(s, i, p)
      Kept(p) == ~IsIntro(p)
      at   == SelectSeq([n \in 1..(to - i) |-> i + n - 1], Kept)
      bad  == {p \in i..(to - 1) : \/ s[p] \in {"\n", "\t", "\r"}
                                   \/ (Escaped(s, i, p) /\ Unescape(s[p]) = "")}
  IN  IF \A p \in i..Len(s) : ~IsEnd(p) THEN ParseFail
      ELSE IF bad # {} THEN ParseFail
      ELSE ParseOk(JStr(acc \o [n \in 1..Len(at) |->
                                  IF Escaped(s, i, at[n]) THEN Unescape(s[at[n]])
                                  ELSE s[at[n]]]),
                   to + 1)

\* an integer: an optional minus sign and digits, no leading zero
ScanNumber(s, i) ==
  LET from == IF s[i] = "-" THEN i + 1 ELSE i
      to   == IF \A j \in from..Len(s) : s[j] \in Digits THEN Len(s) + 1
              ELSE CHOOSE j \in from..Len(s) :
                     s[j] \notin Digits /\ \A m \in from..(j - 1) : s[m] \in Digits
  IN  IF to = from \/ (to > from + 1 /\ s[from] = "0") THEN ParseFail
      ELSE ParseOk(JNum(SubSeq(s, i, to - 1)), to)

\* true, false or null
ScanLiteral(s, i) ==
  LET hits == {l \in Literals : i + Len(l) - 1 <= Len(s) /\ SubSeq(s, i, i + Len(l) - 1) = l}
  IN  IF hits = {} THEN ParseFail
      ELSE LET l == CHOOSE l \in hits : TRUE IN ParseOk(JLit(l), i + Len(l))

RECURSIVE ParseValue(_, _)
RECURSIVE ParseItems(_, _, _)
RECURSIVE ParseMembers(_, _, _)

\* the items of a list after "[" or after a comma; i is at an item
ParseItems(s, i, acc) ==
  LET After(item, at) ==
        IF ~item.ok \/ at > Len(s) THEN ParseFail
        ELSE IF s[at] = "]" THEN ParseOk(JArr(Append(acc, item.val)), at + 1)
        ELSE IF s[at] = "," THEN ParseItems(s, SkipWs(s, at + 1), Append(acc, item.val))
        ELSE ParseFail
      Of(item) == After(item, SkipWs(s, item.pos))
  IN  Of(ParseValue(s, i))

\* the members of a dict after "{" or after a comma; i is at a key
ParseMembers(s, i, acc) ==
  LET After(val, at, more) ==
        IF ~val.ok \/ at > Len(s) THEN ParseFail
        ELSE IF s[at] = "}" THEN ParseOk(JObj(more), at + 1)
        ELSE IF s[at] = "," THEN ParseMembers(s, SkipWs(s, at + 1), more)
        ELSE ParseFail
      Valued(key, val) ==
        After(val, SkipWs(s, val.pos), Append(acc, Member(key.val.s, val.val)))
      Keyed(key, colon) ==
        Valued(key, IF key.ok /\ colon <= Len(s) /\ s[colon] = ":"
                    THEN ParseValue(s, SkipWs(s, colon + 1)) ELSE ParseFail)
      Of(key) == Keyed(key, SkipWs(s, key.pos))
  IN  Of(IF i <= Len(s) /\ s[i] = "\"" THEN ScanString(s, i + 1, <<>>) ELSE ParseFail)

\* one JSON value starting at i
ParseValue(s, i) ==
  IF i > Len(s) THEN ParseFail
  ELSE IF s[i] = "\"" THEN ScanString(s, i + 1, <<>>)
  ELSE IF s[i] = "{"
       THEN LET at == SkipWs(s, i + 1)
            IN  IF at <= Len(s) /\ s[at] = "}" THEN ParseOk(JObj(<<>>), at + 1)
                ELSE ParseMembers(s, at, <<>>)
  ELSE IF s[i] = "["
       THEN LET at == SkipWs(s, i + 1)
            IN  IF at <= Len(s) /\ s[at] = "]" THEN ParseOk(JArr(<<>>), at + 1)
                ELSE ParseItems(s, at, <<>>)
  ELSE IF s[i] \in Digits \cup {"-"} THEN ScanNumber(s, i)
  ELSE ScanLiteral(s, i)

\* json.loads(t): ok is FALSE where it raises
JsonLoads(t) ==
  LET Whole(r) == IF r.ok /\ SkipWs(t, r.pos) > Len(t) THEN r ELSE ParseFail
  IN  Whole(ParseValue(t, SkipWs(t, 1)))

\* dict.get(key): a later member of the same key replaces an earlier one
Get(obj, key) ==
  LET hits == {i \in 1..Len(obj.kids) : obj.kids[i].k = key}
  IN  IF hits = {} THEN JNull
      ELSE obj.kids[CHOOSE i \in hits : \A j \in hits : i >= j]

IsStr(val) == val.t = "str"

IsDict(val) == val.t = "obj"

IsList(val) == val.t = "arr"

-----------------------------------------------------------------------------
(* _extract_text_from_possible_json *)

K_ml_generate_text_result == <<"m","l","_","g","e","n","e","r","a","t","e","_","t","e","x","t","_","r","e","s","u","l","t">>

K_text == <<"t","e","x","t">>

K_content == <<"c","o","n","t","e","n","t">>

K_output_text == <<"o","u","t","p","u","t","_","t","e","x","t">>

K_result == <<"r","e","s","u","l","t">>

K_candidates == <<"c","a","n","d","i","d","a","t","e","s">>

K_parts == <<"p","a","r","t","s">>

\* the keys tried on a dict, in order
DictKeys == <<K_ml_generate_text_result, K_text, K_content, K_output_text, K_result>>

\* the keys tried directly on a candidate, in order
CandidateKeys == <<K_text, K_output_text>>

\* the keys tried on a candidate after its content parts
CandidateAltKeys == <<K_ml_generate_text_result>>

\* the keys tried on the first element of a list, in order
ListFirstKeys == <<K_content, K_text, K_output_text, K_ml_generate_text_result>>

\* the loop "for key in keys: val = obj.get(key); if isinstance(val, str)":
\* the positions in keys whose value is a string
StringKeys(obj, keys) == {i \in 1..Len(keys) : IsStr(Get(obj, keys[i]))}

\* the string under the last key of keys that holds one
FirstString_last(obj, keys) ==
  LET hits == StringKeys(obj, keys)
  IN  Get(obj, keys[CHOOSE i \in hits : \A j \in hits : i >= j]).s

\* the string under the first key of keys that holds one
FirstString(obj, keys) ==
  LET hits == StringKeys(obj, keys)
  IN  Get(obj, keys[CHOOSE i \in hits : \A j \in hits : i <= j]).s

RECURSIVE StringsUnder(_, _)
\* the strings under keys, each key appended in turn
StringsUnder(obj, keys) ==
  IF keys = <<>> THEN <<>>
  ELSE (IF IsStr(Get(obj, Head(keys))) THEN <<Get(obj, Head(keys)).s>> ELSE <<>>)
       \o StringsUnder(obj, Tail(keys))

RECURSIVE PartTexts(_)
\* the loop over content.parts: the text of each part that is a dict
PartTexts(parts) ==
  IF parts = <<>> THEN <<>>
  ELSE (IF IsDict(Head(parts)) /\ IsStr(Get(Head(parts), K_text))
        THEN <<Get(Head(parts), K_text).s>> ELSE <<>>)
       \o PartTexts(Tail(parts))

\* ml_generate_text_result is read before the content parts
CandidateTexts_altFirst(cand) ==
  IF ~IsDict(cand) THEN <<>>
  ELSE LET content == Get(cand, K_content)
           parts   == IF IsDict(content) THEN Get(content, K_parts) ELSE JNull
       IN  StringsUnder(cand, CandidateKeys)
           \o StringsUnder(cand, CandidateAltKeys)
           \o (IF IsList(parts) THEN PartTexts(parts.kids) ELSE <<>>)

\* what one candidate appends to texts
CandidateTexts(cand) ==
  IF ~IsDict(cand) THEN <<>>
  ELSE LET content == Get(cand, K_content)
           parts   == IF IsDict(content) THEN Get(content, K_parts) ELSE JNull
       IN  StringsUnder(cand, CandidateKeys)
           \o (IF IsList(parts) THEN PartTexts(parts.kids) ELSE <<>>)
           \o StringsUnder(cand, CandidateAltKeys)

RECURSIVE CollectTexts(_)
\* the loop over candidates
CollectTexts(cands) ==
  IF cands = <<>> THEN <<>>
  ELSE CandidateTexts(Head(cands)) \o CollectTexts(Tail(cands))

\* the texts collected from obj["candidates"], when it is a non-empty list
TextsOf(obj) ==
  LET cands == Get(obj, K_candidates)
  IN  IF IsList(cands) /\ cands.kids # <<>> THEN CollectTexts(cands.kids) ELSE <<>>

\* "if texts": at least one string was collected
HasTexts(texts) == texts # <<>>

\* the value the fall-through "return s" gives
Fallback(s, t) == s

\* the block under "if isinstance(obj, dict)": [hit, v]
FromDict(obj) ==
  IF StringKeys(obj, DictKeys) # {} THEN Some(FirstString(obj, DictKeys))
  ELSE IF HasTexts(TextsOf(obj)) THEN Some(Join(TextsOf(obj), <<"\n">>))
  ELSE None

\* the block under "if isinstance(obj, list) and obj": [hit, v]
FromList(obj) ==
  LET first == obj.kids[1]
  IN  IF IsStr(first) THEN Some(first.s)
      ELSE IF IsDict(first) /\ StringKeys(first, ListFirstKeys) # {}
           THEN Some(FirstString(first, ListFirstKeys))
      ELSE None

\* t is wrapped in a pair of double or of single quotes
Quoted(t) ==
  \/ (StartsWith(t, <<"\"">>) /\ EndsWith(t, <<"\"">>))
  \/ (StartsWith(t, <<"'">>) /\ EndsWith(t, <<"'">>))

\* the block under "if t.startswith('{') or t.startswith('[')"
FromStructure(t) ==
  LET Of(obj) ==
        IF ~obj.ok THEN None
        ELSE IF IsStr(obj.val) THEN Some(obj.val.s)
        ELSE IF IsDict(obj.val) THEN FromDict(obj.val)
        ELSE IF IsList(obj.val) /\ obj.val.kids # <<>> THEN FromList(obj.val)
        ELSE None
  IN  Of(JsonLoads(t))

\* s is an Optional[str]; the result is a str
_extract_text_from_possible_json(s) ==
  IF ~s.present THEN <<>>
  ELSE LET Pick(t, loaded, found) ==
             IF loaded.ok /\ IsStr(loaded.val) THEN loaded.val.s
             ELSE IF found.present THEN found.v
             ELSE Fallback(s.v, t)
           Of(t) ==
             Pick(t,
                  IF Quoted(t) THEN JsonLoads(t) ELSE ParseFail,
                  IF StartsWith(t, <<"{">>) \/ StartsWith(t, <<"[">>)
                  THEN FromStructure(t) ELSE None)
       IN  Of(Strip(s.v))

-----------------------------------------------------------------------------
(* The query of SQL_TEMPLATE and the details query *)

\* LIMIT 10 of top_candidates
TopK == 10

\* most rows the products table holds
MaxProducts == 2

\* the product ids a row of the products table may hold
ProductIds == {7, 42}

ProductRows == [product_id : ProductIds, has_embedding : BOOLEAN]

Stores == {st \in SUBSET ProductRows : Cardinality(st) <= MaxProducts}

DigitChars == <<"0","1","2","3","4","5","6","7","8","9">>

RECURSIVE CastString(_)
\* CAST(product_id AS STRING) of a non-negative INT64
CastString(n) ==
  IF n < 10 THEN <<DigitChars[n + 1]>>
  ELSE CastString(n \div 10) \o <<DigitChars[(n % 10) + 1]>>

\* the sequences that hold each row of rows once
Orderings(rows) ==
  {q \in [1..Cardinality(rows) -> rows] : \A i, j \in 1..Cardinality(rows) : i # j => q[i] # q[j]}

\* top_candidates: the rows with an embedding, by distance (any order the
\* embeddings may give), cut to TopK
TopCandidates(st) ==
  LET rows == {r \in st : r.has_embedding}
  IN  {SubSeq(q, 1, IF Len(q) < TopK THEN Len(q) ELSE TopK) : q \in Orderings(rows)}

\* STRING_AGG over top_candidates: NULL over no rows
StringAgg(cands) ==
  IF cands = <<>> THEN [null |-> TRUE, ids |-> <<>>]
  ELSE [null |-> FALSE, ids |-> [i \in 1..Len(cands) |-> CastString(cands[i].product_id)]]

\* SELECT CONCAT(..., STRING_AGG(...), ...) AS prompt FROM top_candidates tc:
\* an aggregate without GROUP BY gives one row, and CONCAT of a NULL is NULL
PromptRows(cands) == <<StringAgg(cands)>>

\* the rows of SELECT STRING_AGG(...), (...) FROM top_candidates: one row
ResultRows(found, selected) == <<[found_products |-> found, selected_product |-> selected]>>

\* WHERE CAST(product_id AS STRING) = @pid
DetailsRows(st, pid) == {r \in st : CastString(r.product_id) = pid}

-----------------------------------------------------------------------------
(* TO_JSON_STRING *)

\* the characters of a string inside a JSON string literal
EscapeChar(c) ==
  CASE c = "\"" -> <<"\\", "\"">>
    [] c = "\\" -> <<"\\", "\\">>
    [] c = "\n" -> <<"\\", "n">>
    [] c = "\t" -> <<"\\", "t">>
    [] c = "\r" -> <<"\\", "r">>
    [] OTHER    -> <<c>>

RECURSIVE Escape(_)
\* the escaped characters of s, one half after the other
Escape(s) ==
  IF s = <<>> THEN <<>>
  ELSE IF Len(s) = 1 THEN EscapeChar(s[1])
  ELSE Escape(SubSeq(s, 1, Len(s) \div 2)) \o Escape(SubSeq(s, Len(s) \div 2 + 1, Len(s)))

Quote(s) == <<"\"">> \o Escape(s) \o <<"\"">>

RECURSIVE ToJsonString(_)
RECURSIVE RenderKids(_, _)

\* the items of a list or the members of a dict, separated by commas
RenderKids(kids, keyed) ==
  IF kids = <<>> THEN <<>>
  ELSE (IF keyed THEN Quote(Head(kids).k) \o <<":">> ELSE <<>>)
       \o ToJsonString(Head(kids))
       \o (IF Len(kids) > 1 THEN <<",">> ELSE <<>>)
       \o RenderKids(Tail(kids), keyed)

\* the compact JSON text of a value
ToJsonString(val) ==
  CASE val.t = "str" -> Quote(val.s)
    [] val.t = "arr" -> <<"[">> \o RenderKids(val.kids, FALSE) \o <<"]">>
    [] val.t = "obj" -> <<"{">> \o RenderKids(val.kids, TRUE) \o <<"}">>
    [] OTHER         -> val.s

-----------------------------------------------------------------------------
(* What the collaborators may answer *)

SelectedKey == <<"S","E","L","E","C","T","E","D","_","P","R","O","D","U","C","T","_","I","D",":">>

ProductName == <<"\n","P","R","O","D","U","C","T","_","N","A","M","E",":"," ","x">>

\* a candidates / content / parts envelope around one text
Envelope(text) ==
  JObj(<<Member(K_candidates, JArr(<<JObj(<<Member(K_content,
         JObj(<<Member(K_parts, JArr(<<JObj(<<Member(K_text, JStr(text))>>)>>))>>))>>)>>))>>)

\* values of ml_generate_text_result the model may give: its shape and its
\* text are not constrained by the query
LlmResults ==
  { JStr(SelectedKey \o <<" ","7">> \o ProductName),
    Envelope(SelectedKey \o <<" ","[","4","2","]">> \o ProductName),
    Envelope(KeyPrefix \o <<" ","9">>),
    JObj(<<Member(K_text, JStr(SelectedKey \o <<" ","'","7","'",",">>))>>),
    JStr(<<"N","A","M","E",":"," ","f","o","o">>),
    JObj(<<Member(K_candidates, JArr(<<>>))>>) }

\* the column selected_product: TO_JSON_STRING of a result, or NULL
SelectedColumns == {Some(ToJsonString(r)) : r \in LlmResults} \cup {None}

\* messages of the exceptions a failed BigQuery job raises
ApiErrors == { <<"4","0","0"," ","B","a","d"," ","R","e","q","u","e","s","t">>,
               <<"4","0","3"," ","F","o","r","b","i","d","d","e","n">> }

-----------------------------------------------------------------------------
(* Texts handed to parse_selected_product_id: lines put together from a    *)
(* key, wrapping layers around an identifier and a comma                   *)

\* most wrapping layers around a value
MaxWrap == 2

\* most lines of a text of several lines
MaxLines == 2

Wrappers == {"square", "round", "single", "double"}

Open(w) ==
  CASE w = "square" -> "[" [] w = "round" -> "(" [] w = "single" -> "'" [] OTHER -> "\""

Close(w) ==
  CASE w = "square" -> "]" [] w = "round" -> ")" [] w = "single" -> "'" [] OTHER -> "\""

RECURSIVE Wrap(_, _)
\* inner inside the layers of wraps, the first of them outermost
Wrap(wraps, inner) ==
  IF wraps = <<>> THEN inner
  ELSE <<Open(Head(wraps))>> \o Wrap(Tail(wraps), inner) \o <<Close(Head(wraps))>>

\* the sequences over S of at most n elements
SeqsUpTo(S, n) == UNION {[1..m -> S] : m \in 0..n}

KeyText(key) ==
  CASE key = "lower" -> KeyPrefix
    [] key = "upper" -> SelectedKey
    [] key = "mixed" -> <<"S","e","l","e","c","t","e","d","_","P","r","o","d","u","c","t","_","I","d",":">>
    [] key = "other" -> <<"N","A","M","E",":">>
    [] OTHER         -> <<>>

MatchingKeys == {"lower", "upper", "mixed"}

\* the value of a line: the core, with its comma, inside the layers
ValueText(line) ==
  Wrap(line.wraps, line.core \o (IF line.comma = "inside" THEN <<",">> ELSE <<>>))
  \o (IF line.comma = "after" THEN <<",">> ELSE <<>>)

\* the characters of a line; a blank line has none
LineText(line) ==
  IF line.key = "blank" THEN <<>>
  ELSE line.lead \o KeyText(line.key) \o <<" ">> \o ValueText(line)

BlankLine == [lead |-> <<>>, key |-> "blank", wraps |-> <<>>, core |-> <<>>, comma |-> "none"]

\* one line with every wrapping of every core
RichLines ==
  [lead : {<<>>, <<" ">>}, key : MatchingKeys, wraps : SeqsUpTo(Wrappers, MaxWrap),
   core : {<<>>, <<"7">>, <<"4","2">>}, comma : {"none", "inside", "after"}]

\* the lines a text of several lines is made of
PlainLines ==
  [lead : {<<>>}, key : {"lower", "upper", "other"}, wraps : {<<>>, <<"square">>},
   core : {<<>>, <<"7">>}, comma : {"none"}]
  \cup [lead : {<<" ">>}, key : {"upper"}, wraps : {<<"single">>},
        core : {<<"4","2">>}, comma : {"after"}]
  \cup {BlankLine}

NoLines == [sep |-> <<>>, lines |-> <<>>]

ParseShapes ==
  [sep : {<<"\n">>}, lines : {<<l>> : l \in RichLines}]
  \cup [sep : {<<"\n">>, <<"\r","\n">>}, lines : SeqsUpTo(PlainLines, MaxLines)]

\* the text of a shape
ShapeText(shape) ==
  Join([i \in 1..Len(shape.lines) |-> LineText(shape.lines[i])], shape.sep)

-----------------------------------------------------------------------------
(* Raw values handed to _extract_text_from_possible_json: plain texts, and *)
(* JSON texts put together from what each key holds.  A shape records what *)
(* was put in: top[i] is what DictKeys[i] holds, cands what "candidates"   *)
(* holds, texts the strings put under the keys a candidate is read by, in  *)
(* the order the candidates and their keys were laid out.                  *)

\* most elements of a candidates list
MaxCands == 2

\* most elements of a parts list
MaxParts == 2

Holds == {"absent", "str", "empty", "num"}

\* the five keys a dict is read by, in the order top lists them
TopKeys == << <<"m","l","_","g","e","n","e","r","a","t","e","_","t","e","x","t","_","r","e","s","u","l","t">>,
             <<"t","e","x","t">>,
             <<"c","o","n","t","e","n","t">>,
             <<"o","u","t","p","u","t","_","t","e","x","t">>,
             <<"r","e","s","u","l","t">> >>

\* the string put under a key: its first letter
KeyValue(key) == <<key[1]>>

\* the value a key holds
HeldValue(hold, key) ==
  CASE hold = "str"   -> JStr(KeyValue(key))
    [] hold = "empty" -> JStr(<<>>)
    [] OTHER          -> JNum(<<"5">>)

\* the strings a key contributes
HeldTexts(hold, key) ==
  CASE hold = "str"   -> <<KeyValue(key)>>
    [] hold = "empty" -> <<<<>>>>
    [] OTHER          -> <<>>

RECURSIVE MembersOf(_, _)
\* the members of a dict whose keys hold what holds says
MembersOf(keys, holds) ==
  IF keys = <<>> THEN <<>>
  ELSE (IF Head(holds) = "absent" THEN <<>>
        ELSE <<Member(Head(keys), HeldValue(Head(holds), Head(keys)))>>)
       \o MembersOf(Tail(keys), Tail(holds))

Reverse(q) == [i \in 1..Len(q) |-> q[Len(q) + 1 - i]]

PartKinds == {"text", "empty", "num", "bare", "none"}

PartDoc(kind) ==
  CASE kind = "text"  -> JObj(<<Member(K_text, JStr(<<"p">>))>>)
    [] kind = "empty" -> JObj(<<Member(K_text, JStr(<<>>))>>)
    [] kind = "num"   -> JObj(<<Member(K_text, JNum(<<"5">>))>>)
    [] kind = "bare"  -> JStr(<<"q">>)
    [] OTHER          -> JObj(<<>>)

PartTextsPut(kind) ==
  CASE kind = "text" -> <<<<"p">>>> [] kind = "empty" -> <<<<>>>> [] OTHER -> <<>>

\* what a candidate is made of; one that is no dict is a bare string
CandidateChoices ==
  [dict : {TRUE}, text : Holds, output_text : {"absent", "str"},
   content : {"absent", "str", "noparts", "badparts"}, parts : {<<>>},
   ml : {"absent", "str"}]
  \cup [dict : {TRUE}, text : Holds, output_text : {"absent", "str"},
        content : {"parts"}, parts : SeqsUpTo(PartKinds, MaxParts),
        ml : {"absent", "str"}]
  \cup [dict : {FALSE}, text : {"absent"}, output_text : {"absent"},
        content : {"absent"}, parts : {<<>>}, ml : {"absent"}]

\* the candidates a list of several is made of
SimpleChoices ==
  {c \in CandidateChoices :
     /\ c.text \in {"absent", "str"}
     /\ c.content \in {"absent", "parts"}
     /\ c.parts \in {<<>>, <<"text">>}
     /\ Cardinality({f \in {"t", "o", "c", "m"} :
           \/ (f = "t" /\ c.text # "absent") \/ (f = "o" /\ c.output_text # "absent")
           \/ (f = "c" /\ c.content # "absent") \/ (f = "m" /\ c.ml # "absent")}) <= 1}

ContentDoc(c) ==
  CASE c.content = "str"      -> JStr(<<"s">>)
    [] c.content = "noparts"  -> JObj(<<>>)
    [] c.content = "badparts" -> JObj(<<Member(K_parts, JNum(<<"5">>))>>)
    [] OTHER -> JObj(<<Member(K_parts, JArr([i \in 1..Len(c.parts) |-> PartDoc(c.parts[i])]))>>)

\* the candidate, its keys laid out ml_generate_text_result first
CandidateDoc(c) ==
  IF ~c.dict THEN JStr(<<"z">>)
  ELSE JObj(MembersOf(<<K_ml_generate_text_result>>, <<c.ml>>)
            \o (IF c.content = "absent" THEN <<>> ELSE <<Member(K_content, ContentDoc(c))>>)
            \o MembersOf(<<K_output_text, K_text>>, <<c.output_text, c.text>>))

RECURSIVE Flatten(_)
Flatten(qs) == IF qs = <<>> THEN <<>> ELSE Head(qs) \o Flatten(Tail(qs))

\* the strings put into a candidate: text, output_text, the parts' texts,
\* ml_generate_text_result
CandidateTextsPut(c) ==
  IF ~c.dict THEN <<>>
  ELSE HeldTexts(c.text, K_text) \o HeldTexts(c.output_text, K_output_text)
       \o Flatten([i \in 1..Len(c.parts) |-> PartTextsPut(c.parts[i])])
       \o HeldTexts(c.ml, K_ml_generate_text_result)

CandidateLists ==
  {<<c>> : c \in CandidateChoices} \cup SeqsUpTo(SimpleChoices, MaxCands)

\* lead and trail: the whitespace around a raw value
Margins == {<<<<>>, <<>>>>, <<<<" ">>, <<"\n">>>>}

RawShape(margin, kind, body, top, cands, texts, first) ==
  [lead |-> margin[1], trail |-> margin[2], kind |-> kind, body |-> body,
   top |-> top, cands |-> cands, texts |-> texts, first |-> first]

NoRaw == RawShape(<<<<>>, <<>>>>, "none", <<>>, <<>>, "none", <<>>, "none")

\* a dict whose keys hold top and whose candidates are the list cs
DictOfList(margin, top, cs, rev) ==
  LET members == MembersOf(TopKeys, top)
                 \o <<Member(K_candidates, JArr([i \in 1..Len(cs) |-> CandidateDoc(cs[i])]))>>
  IN  RawShape(margin, "dict",
               ToJsonString(JObj(IF rev THEN Reverse(members) ELSE members)),
               top, IF cs = <<>> THEN "empty" ELSE "list",
               Flatten([i \in 1..Len(cs) |-> CandidateTextsPut(cs[i])]), "none")

\* a dict whose keys hold top, without candidates or with some that are no list
DictWithout(margin, top, cands) ==
  RawShape(margin, "dict",
           ToJsonString(JObj(MembersOf(TopKeys, top)
              \o (IF cands = "other" THEN <<Member(K_candidates, JNum(<<"5">>))>> ELSE <<>>))),
           top, cands, <<>>, "none")

AllAbsent == <<"absent", "absent", "absent", "absent", "absent">>

\* dicts of every holding of the five keys, with and without a candidate
KeyedDicts ==
  {DictOfList(m, top, <<[dict |-> TRUE, text |-> "str", output_text |-> "absent",
                         content |-> "absent", parts |-> <<>>, ml |-> "absent"]>>, rev) :
     m \in Margins, top \in [1..5 -> Holds], rev \in BOOLEAN}
  \cup {DictWithout(m, top, "none") : m \in Margins, top \in [1..5 -> Holds]}

\* dicts without a string under the five keys, of every candidates list
CandidateDicts ==
  {DictOfList(m, top, cs, FALSE) :
     m \in Margins, top \in {AllAbsent, [AllAbsent EXCEPT ![2] = "num"]},
     cs \in CandidateLists}
  \cup {DictWithout(m, AllAbsent, "other") : m \in Margins}

\* lists: what the first element is
FirstKinds == {"none", "str", "dictstr", "dictnone", "num"}

ListDoc(first) ==
  CASE first = "none"     -> JArr(<<>>)
    [] first = "str"      -> JArr(<<JStr(<<"f">>), JNum(<<"5">>)>>)
    [] first = "dictstr"  -> JArr(<<JObj(MembersOf(<<K_text, K_content>>, <<"str", "str">>))>>)
    [] first = "dictnone" -> JArr(<<JObj(<<Member(K_result, JStr(<<"r">>))>>), JStr(<<"f">>)>>)
    [] OTHER              -> JArr(<<JNum(<<"5">>), JStr(<<"f">>)>>)

Lists ==
  {RawShape(m, "list", ToJsonString(ListDoc(f)), <<>>, "none", <<>>, f) :
     m \in Margins, f \in FirstKinds}

\* texts json.loads rejects, and texts that start with neither a quote, a
\* brace nor a bracket
PlainTexts ==
  { <<"h","e","l","l","o">>, <<"{","b","a","d">>, <<"[","1",",">>,
    <<"'","h","i","'">>, <<"\"","a","\""," ","\"","b","\"">>, <<"\"","h","i">>,
    SelectedKey \o <<" ","7">> \o ProductName }

Plains == {RawShape(m, "plain", t, <<>>, "none", <<>>, "none") : m \in Margins, t \in PlainTexts}

\* JSON string literals
Strings ==
  {RawShape(m, "string", Quote(t), <<>>, "none", <<>>, "none") :
     m \in Margins, t \in {<<"h","i">>, SelectedKey \o <<" ","7">> \o ProductName}}

Absent == RawShape(<<<<>>, <<>>>>, "absent", <<>>, <<>>, "none", <<>>, "none")

RawShapes == KeyedDicts \cup CandidateDicts \cup Lists \cup Plains \cup Strings \cup {Absent}

\* the raw value of a shape
ShapeRaw(shape) ==
  IF shape.kind = "absent" THEN None ELSE Some(shape.lead \o shape.body \o shape.trail)

-----------------------------------------------------------------------------
(* fetch_selected_product and main *)

StageOrder == <<"Start", "Embedded", "Retrieved", "PromptBuilt", "Generated",
                "Normalized", "Parsed", "Resolved">>

NoFailure == [present |-> FALSE, exc |-> "", message |-> <<>>]

Raised(exc, message) == [present |-> TRUE, exc |-> exc, message |-> message]

NoRow == [present |-> FALSE, product_id |-> 0]

NoResult == [present |-> FALSE, found_products |-> StringAgg(<<>>), selected_raw |-> <<>>,
             selected_product_id |-> <<>>, selected_product |-> NoRow]

NoRowsMessage == <<"Q","u","e","r","y"," ","r","e","t","u","r","n","e","d"," ","n","o"," ","r","o","w","s">>

UnparseablePrefix == <<"C","o","u","l","d"," ","n","o","t"," ","p","a","r","s","e"," ","S","E","L","E","C","T","E","D","_","P","R","O","D","U","C","T","_","I","D"," ","f","r","o","m"," ","L","L","M"," ","o","u","t","p","u","t","."," ","F","u","l","l"," ","t","e","x","t",":"," ">>

EmptyMarker == <<"<","e","m","p","t","y",">">>

ErrorPrefix == <<"E","r","r","o","r",":"," ">>

\* the message without the text
UnparseableMessage_bare(text) == UnparseablePrefix \o EmptyMarker

\* the message of the RuntimeError raised when no identifier was parsed
UnparseableMessage(text) ==
  UnparseablePrefix \o (IF text = <<>> THEN EmptyMarker ELSE text)

\* x or ""
OrEmpty(x) == IF x.present THEN x.v ELSE <<>>

\* the run completes a stage
Advance(stage) == pc' = stage /\ trace' = Append(trace, stage)

\* an exception leaves fetch_selected_product
Raise(exc, message) ==
  /\ pc' = "Failed"
  /\ failedAt' = pc
  /\ failure' = Raised(exc, message)
  /\ UNCHANGED trace

\* search_embedding: ML.GENERATE_EMBEDDING of the search query
Embed ==
  /\ pc = "Start"
  /\ Advance("Embedded")
  /\ UNCHANGED <<store, candidates, found_products, prompt, selected_product,
                 selected_text, selected_id, result, failure, failedAt, genCalls,
                 lookupCalls, stderr, exit_code, pshape, nshape>>

\* top_candidates
Retrieve ==
  /\ pc = "Embedded"
  /\ candidates' \in TopCandidates(store)
  /\ Advance("Retrieved")
  /\ UNCHANGED <<store, found_products, prompt, selected_product,
                 selected_text, selected_id, result, failure, failedAt, genCalls,
                 lookupCalls, stderr, exit_code, pshape, nshape>>

\* the aggregates over top_candidates: found_products and the prompt
BuildPrompt ==
  /\ pc = "Retrieved"
  /\ found_products' = StringAgg(candidates)
  /\ prompt' = PromptRows(candidates)
  /\ Advance("PromptBuilt")
  /\ UNCHANGED <<store, candidates, selected_product,
                 selected_text, selected_id, result, failure, failedAt, genCalls,
                 lookupCalls, stderr, exit_code, pshape, nshape>>

\* ML.GENERATE_TEXT over the prompt rows, and TO_JSON_STRING of its result
Generate ==
  /\ pc = "PromptBuilt"
  /\ genCalls' = genCalls + Len(prompt)
  /\ selected_product' \in SelectedColumns
  /\ Advance("Generated")
  /\ UNCHANGED <<store, candidates, found_products, prompt,
                 selected_text, selected_id, result, failure, failedAt,
                 lookupCalls, stderr, exit_code, pshape, nshape>>

\* the exception is caught and the run goes on to the details query
QueryFails_swallowed ==
  /\ pc \in {"Start", "Embedded", "Retrieved", "PromptBuilt"}
  /\ \E message \in ApiErrors : failure' = Raised("ApiError", message)
  /\ failedAt' = pc
  /\ Advance("Parsed")
  /\ UNCHANGED <<store, candidates, found_products, prompt, selected_product,
                 selected_text, selected_id, result, genCalls,
                 lookupCalls, stderr, exit_code, pshape, nshape>>

\* client.query(sql).result() raises: the job failed in one of its stages
QueryFails ==
  /\ pc \in {"Start", "Embedded", "Retrieved", "PromptBuilt"}
  /\ \E message \in ApiErrors : Raise("ApiError", message)
  /\ UNCHANGED <<store, candidates, found_products, prompt, selected_product,
                 selected_text, selected_id, result, genCalls,
                 lookupCalls, stderr, exit_code, pshape, nshape>>

\* the first row is read and its selected_product is normalised
Normalize ==
  /\ pc = "Generated"
  /\ IF ResultRows(found_products, selected_product) = <<>>
     THEN /\ Raise("RuntimeError", NoRowsMessage)
          /\ UNCHANGED selected_text
     ELSE /\ selected_text' = _extract_text_from_possible_json(Some(OrEmpty(selected_product)))
          /\ Advance("Normalized")
          /\ UNCHANGED <<failure, failedAt>>
  /\ UNCHANGED <<store, candidates, found_products, prompt, selected_product,
                 selected_id, result, genCalls,
                 lookupCalls, stderr, exit_code, pshape, nshape>>

\* the identifier is parsed; without one the run raises
Parse ==
  /\ pc = "Normalized"
  /\ selected_id' = parse_selected_product_id(selected_text)
  /\ IF ~selected_id'.present
     THEN Raise("RuntimeError", UnparseableMessage(selected_text))
     ELSE Advance("Parsed") /\ UNCHANGED <<failure, failedAt>>
  /\ UNCHANGED <<store, candidates, found_products, prompt, selected_product,
                 selected_text, result, genCalls,
                 lookupCalls, stderr, exit_code, pshape, nshape>>

\* the dict returned for the first row of the details query, or for none
Returned(row) ==
  [present |-> TRUE, found_products |-> found_products, selected_raw |-> selected_text,
   selected_product_id |-> selected_id.v, selected_product |-> row]

\* a details query without a row raises
Resolve_strict ==
  /\ pc = "Parsed"
  /\ lookupCalls' = lookupCalls + 1
  /\ \/ /\ \E r \in DetailsRows(store, selected_id.v) :
              result' = Returned([present |-> TRUE, product_id |-> r.product_id])
        /\ Advance("Resolved")
        /\ UNCHANGED <<failure, failedAt>>
     \/ /\ DetailsRows(store, selected_id.v) = {}
        /\ Raise("RuntimeError", NoRowsMessage)
        /\ UNCHANGED result
  /\ UNCHANGED <<store, candidates, found_products, prompt, selected_product,
                 selected_text, selected_id, genCalls,
                 stderr, exit_code, pshape, nshape>>

\* the details query and the return
Resolve ==
  /\ pc = "Parsed"
  /\ lookupCalls' = lookupCalls + 1
  /\ \/ \E r \in DetailsRows(store, selected_id.v) :
           result' = Returned([present |-> TRUE, product_id |-> r.product_id])
     \/ /\ DetailsRows(store, selected_id.v) = {}
        /\ result' = Returned(NoRow)
  /\ Advance("Resolved")
  /\ UNCHANGED <<store, candidates, found_products, prompt, selected_product,
                 selected_text, selected_id, failure, failedAt, genCalls,
                 stderr, exit_code, pshape, nshape>>

\* the details job fails: details_job.result() raises
DetailsQueryFails ==
  /\ pc = "Parsed"
  /\ lookupCalls' = lookupCalls + 1
  /\ \E message \in ApiErrors : Raise("ApiError", message)
  /\ UNCHANGED <<store, candidates, found_products, prompt, selected_product,
                 selected_text, selected_id, result, genCalls,
                 stderr, exit_code, pshape, nshape>>

\* main: the except clause prints the exception and exits with 1; a result
\* is printed and main returns
MainReports ==
  /\ pc \in {"Failed", "Resolved"}
  /\ exit_code = -1
  /\ IF pc = "Failed"
     THEN stderr' = ErrorPrefix \o failure.message /\ exit_code' = 1
     ELSE stderr' = stderr /\ exit_code' = 0
  /\ UNCHANGED <<pc, trace, store, candidates, found_products, prompt, selected_product,
                 selected_text, selected_id, result, failure, failedAt, genCalls,
                 lookupCalls, pshape, nshape>>

Init ==
  /\ pc = "Start"
  /\ trace = <<"Start">>
  /\ store \in Stores
  /\ candidates = <<>>
  /\ found_products = StringAgg(<<>>)
  /\ prompt = <<>>
  /\ selected_product = None
  /\ selected_text = <<>>
  /\ selected_id = None
  /\ result = NoResult
  /\ failure = NoFailure
  /\ failedAt = ""
  /\ genCalls = 0
  /\ lookupCalls = 0
  /\ stderr = <<>>
  /\ exit_code = -1
  /\ pshape = NoLines
  /\ nshape = NoRaw

Next ==
  \/ Embed
  \/ Retrieve
  \/ BuildPrompt
  \/ Generate
  \/ QueryFails
  \/ Normalize
  \/ Parse
  \/ Resolve
  \/ DetailsQueryFails
  \/ MainReports

Spec == Init /\ [][Next]_vars

\* parse_selected_product_id applied to a text
ApplyParse ==
  /\ pc = "ParseInput"
  /\ pc' = "ParseOutput"
  /\ selected_id' = parse_selected_product_id(selected_text)
  /\ UNCHANGED <<trace, store, candidates, found_products, prompt, selected_product,
                 selected_text, result, failure, failedAt, genCalls,
                 lookupCalls, stderr, exit_code, pshape, nshape>>

InitParse ==
  /\ pc = "ParseInput"
  /\ pshape \in ParseShapes
  /\ selected_text = ShapeText(pshape)
  /\ trace = <<>>
  /\ store = {}
  /\ candidates = <<>>
  /\ found_products = StringAgg(<<>>)
  /\ prompt = <<>>
  /\ selected_product = None
  /\ selected_id = None
  /\ result = NoResult
  /\ failure = NoFailure
  /\ failedAt = ""
  /\ genCalls = 0
  /\ lookupCalls = 0
  /\ stderr = <<>>
  /\ exit_code = -1
  /\ nshape = NoRaw

NextParse == ApplyParse

SpecParse == InitParse /\ [][NextParse]_vars

\* _extract_text_from_possible_json applied to a raw value
ApplyNormalize ==
  /\ pc = "NormalizeInput"
  /\ pc' = "NormalizeOutput"
  /\ selected_text' = _extract_text_from_possible_json(selected_product)
  /\ UNCHANGED <<trace, store, candidates, found_products, prompt, selected_product,
                 selected_id, result, failure, failedAt, genCalls,
                 lookupCalls, stderr, exit_code, pshape, nshape>>

InitNormalize ==
  /\ pc = "NormalizeInput"
  /\ nshape \in RawShapes
  /\ selected_product = ShapeRaw(nshape)
  /\ selected_text = <<>>
  /\ trace = <<>>
  /\ store = {}
  /\ candidates = <<>>
  /\ found_products = StringAgg(<<>>)
  /\ prompt = <<>>
  /\ selected_id = None
  /\ result = NoResult
  /\ failure = NoFailure
  /\ failedAt = ""
  /\ genCalls = 0
  /\ lookupCalls = 0
  /\ stderr = <<>>
  /\ exit_code = -1
  /\ pshape = NoLines

NextNormalize == ApplyNormalize

SpecNormalize == InitNormalize /\ [][NextNormalize]_vars

-----------------------------------------------------------------------------
(* Runs of fetch_selected_product *)

\* the run completed the stage
HasStage(stage) == \E i \in 1..Len(trace) : trace[i] = stage

\* retrieval completed and gave no candidate
NoCandidates == HasStage("Retrieved") /\ candidates = <<>>

\* C1: a run whose retrieval gives no candidate never applies
\* ML.GENERATE_TEXT, returns no result and fails with a NoCandidatesError.
C1_NoCandidatesNoGeneration ==
  NoCandidates =>
    /\ genCalls = 0
    /\ ~result.present
    /\ (pc = "Failed" => failure.exc = "NoCandidatesError")

\* generation completed and the parser, applied, found no identifier
ParserReturnedAbsent ==
  /\ HasStage("Normalized")
  /\ pc # "Normalized"
  /\ ~parse_selected_product_id(selected_text).present

\* C2: when the parser returns absent the run fails with a message that
\* holds the whole normalised text, no details query is issued, generation
\* is not repeated, and a returned result holds the identifier the parser
\* extracted from its text.
C2_UnparseableFailsWithText ==
  /\ ParserReturnedAbsent =>
       /\ pc = "Failed" /\ failure.present
       /\ Contains(failure.message, selected_text)
       /\ lookupCalls = 0 /\ genCalls <= 1
       /\ ~result.present
  /\ result.present =>
       parse_selected_product_id(result.selected_raw) = Some(result.selected_product_id)

\* C2 witness: the run failed at parsing a text that is not empty, and main
\* printed the message.
C2_Witness ==
  /\ pc = "Failed" /\ failedAt = "Normalized"
  /\ selected_text # <<>>
  /\ Contains(stderr, selected_text)
  /\ exit_code = 1

\* the text CAST(product_id AS STRING) gives for the ids of ProductIds
IdText(id) == IF id = 7 THEN <<"7">> ELSE <<"4","2">>

\* no row of the products table has the parsed identifier
NoRecord == \A r \in store : IdText(r.product_id) # selected_id.v

\* C3: a details query that finds no record ends the run with a result
\* that holds the parsed identifier and no record; only a failed job makes
\* the details query an error.
C3_MissingRecordIsNoError ==
  /\ (pc = "Resolved" /\ NoRecord) =>
       /\ result.present /\ selected_id.present
       /\ result.selected_product_id = selected_id.v
       /\ ~result.selected_product.present
       /\ ~failure.present
  /\ (pc = "Failed" /\ failedAt = "Parsed") => failure.exc = "ApiError"

\* C3 witness: identifier 9 was parsed, the table holds other products, and
\* main returned.
C3_Witness ==
  /\ pc = "Resolved"
  /\ store # {}
  /\ NoRecord
  /\ result.selected_product_id = <<"9">>
  /\ ~result.selected_product.present
  /\ exit_code = 0

\* the stages before Parsed that a failed job ends: the run was in failedAt
QueryStages == {"Start", "Embedded", "Retrieved", "PromptBuilt"}

\* the names of the stages a failed job ends
StageName(at) ==
  CASE at = "Start"     -> <<"E","m","b","e","d","d","e","d">>
    [] at = "Embedded"  -> <<"R","e","t","r","i","e","v","e","d">>
    [] at = "Retrieved" -> <<"P","r","o","m","p","t","B","u","i","l","t">>
    [] OTHER            -> <<"G","e","n","e","r","a","t","e","d">>

\* the stages run in the fixed order, each after the one before; the
\* details query is issued only after an identifier was parsed and
\* generation only after the prompt was built; a job that fails before
\* Parsed leaves the run failed, in the stage it had reached, with the
\* job's exception, which main prints
StagesInOrder ==
  /\ Len(trace) >= 1
  /\ trace = SubSeq(StageOrder, 1, Len(trace))
  /\ (pc # "Failed" => pc = trace[Len(trace)])
  /\ (genCalls > 0 => HasStage("PromptBuilt"))
  /\ (lookupCalls > 0 => (HasStage("Parsed") /\ selected_id.present))
  /\ ((pc = "Failed" /\ failedAt \in QueryStages) =>
        /\ failure.present /\ failure.exc = "ApiError" /\ failure.message \in ApiErrors
        /\ failedAt = trace[Len(trace)]
        /\ ~result.present
        /\ (exit_code # -1 => (exit_code = 1 /\ stderr = ErrorPrefix \o failure.message)))

\* after a failure no stage runs
FailedIsFinal ==
  pc = "Failed" =>
    /\ pc' = "Failed" /\ trace' = trace /\ failure' = failure
    /\ genCalls' = genCalls /\ lookupCalls' = lookupCalls /\ result' = result

-----------------------------------------------------------------------------
(* What a shape says its text holds, read off the shape and not the text   *)

Brackets == {"square", "round"}

Quotes == {"single", "double"}

\* the lines of the shape whose key is selected_product_id: in some case
MatchingLines == {i \in 1..Len(pshape.lines) : pshape.lines[i].key \in MatchingKeys}

\* the first of them
FirstMatching == pshape.lines[CHOOSE i \in MatchingLines : \A j \in MatchingLines : i <= j]

CoreWithComma(line) == line.core \o (IF line.comma = "inside" THEN <<",">> ELSE <<>>)

\* the layers left after one bracket layer and then one quote layer are taken
AfterBracketThenQuote(wraps) ==
  LET w1 == IF wraps # <<>> /\ Head(wraps) \in Brackets THEN Tail(wraps) ELSE wraps
  IN  IF w1 # <<>> /\ Head(w1) \in Quotes THEN Tail(w1) ELSE w1

\* the layers left after the outermost layer alone is taken
AfterOutermost(wraps) == IF wraps # <<>> THEN Tail(wraps) ELSE wraps

\* the value left of a line whose layers left are rest: a comma after the
\* layers keeps every layer and goes; a comma left bare at the end goes
ValueLeft(line, rest) ==
  IF line.comma = "after" THEN Wrap(line.wraps, line.core)
  ELSE IF rest = <<>> THEN line.core
  ELSE Wrap(rest, CoreWithComma(line))

ParseDone == pc = "ParseOutput"

\* C5: of two or more matching lines the first decides alone: the result is
\* its normalised value, and absent when that value is empty, whatever the
\* later matching lines hold.
C5_FirstMatchingLineWins ==
  (ParseDone /\ Cardinality(MatchingLines) >= 2) =>
    selected_id = OrNone(ValueLeft(FirstMatching, AfterBracketThenQuote(FirstMatching.wraps)))

\* C5 witness: the first matching line has an empty value, a later one has
\* not, and the parser returned absent.
C5_Witness ==
  /\ ParseDone
  /\ Len(pshape.lines) = 2
  /\ pshape.lines[1].key = "upper" /\ pshape.lines[1].wraps = <<"square">>
  /\ pshape.lines[1].core = <<>>
  /\ pshape.lines[2].key = "lower" /\ pshape.lines[2].core = <<"7">>
  /\ selected_id = None

\* C6: a matching line, in any letter case, whose value is an identifier in
\* one pair of quotes followed by a comma gives the bare identifier.
C6_QuotedWithCommaGivesBare ==
  (/\ ParseDone
   /\ MatchingLines # {}
   /\ Len(FirstMatching.wraps) = 1 /\ FirstMatching.wraps[1] \in Quotes
   /\ FirstMatching.core # <<>> /\ FirstMatching.comma = "after")
  => selected_id = Some(FirstMatching.core)

\* C7 as stated: exactly one wrapping layer, the outermost, is removed from
\* the value of a matching line, and then at most one trailing comma.
C7_OnlyOutermostLayer ==
  (ParseDone /\ Len(pshape.lines) = 1 /\ MatchingLines # {}) =>
    selected_id = OrNone(ValueLeft(FirstMatching, AfterOutermost(FirstMatching.wraps)))

\* C7 amended: at most one bracket layer and then at most one quote layer
\* are removed from the value of a matching line (so ["42"] gives 42 and
\* [[42]] gives [42]), and then at most one trailing comma.
C7_BracketThenQuoteLayer ==
  (ParseDone /\ Len(pshape.lines) = 1 /\ MatchingLines # {}) =>
    selected_id = OrNone(ValueLeft(FirstMatching, AfterBracketThenQuote(FirstMatching.wraps)))

\* C7 witness: ["42"] was parsed to 42.
C7_Witness ==
  /\ ParseDone
  /\ Len(pshape.lines) = 1
  /\ pshape.lines[1].key = "lower"
  /\ pshape.lines[1].wraps = <<"square", "double">>
  /\ pshape.lines[1].core = <<"4","2">> /\ pshape.lines[1].comma = "none"
  /\ selected_id = Some(<<"4","2">>)

-----------------------------------------------------------------------------
(* What a shape says its raw value holds *)

NormalizeDone == pc = "NormalizeOutput"

\* the raw value as it was handed in
RawText == nshape.lead \o nshape.body \o nshape.trail

\* the keys of top that hold a string
TopStrings == {i \in 1..Len(nshape.top) : nshape.top[i] \in {"str", "empty"}}

\* the string under the first of them
FirstTopString ==
  LET i == CHOOSE i \in TopStrings : \A j \in TopStrings : i <= j
  IN  IF nshape.top[i] = "str" THEN KeyValue(TopKeys[i]) ELSE <<>>

\* nothing can be extracted: text that is no JSON, a dict without a string
\* under a key it is read by, a list whose first element gives none
NothingToExtract ==
  \/ nshape.kind = "plain"
  \/ (nshape.kind = "dict" /\ TopStrings = {} /\ nshape.texts = <<>>)
  \/ (nshape.kind = "list" /\ nshape.first \in {"none", "dictnone", "num"})

\* C8: where nothing can be extracted the result is the raw value with the
\* surrounding whitespace trimmed, and the empty string for an absent value.
C8_FallbackIsTrimmedRaw ==
  NormalizeDone =>
    /\ (nshape.kind = "absent" => selected_text = <<>>)
    /\ (NothingToExtract => selected_text = Strip(RawText))

\* C9: a JSON object gives the string under the first of the keys
\* ml_generate_text_result, text, content, output_text, result that holds a
\* string, whatever the keys before it and "candidates" hold.
C9_FirstStringKeyWins ==
  (NormalizeDone /\ nshape.kind = "dict" /\ TopStrings # {}) =>
    selected_text = FirstTopString

\* C9 witness: ml_generate_text_result and text hold numbers, content and
\* result hold strings, candidates holds a text, and content was returned.
C9_Witness ==
  /\ NormalizeDone
  /\ nshape.kind = "dict"
  /\ nshape.top = <<"num", "num", "str", "absent", "str">>
  /\ nshape.cands = "list"
  /\ selected_text = <<"c">>

\* a dict without a string under its five keys and with a non-empty
\* candidates list
CandidatesCase ==
  NormalizeDone /\ nshape.kind = "dict" /\ TopStrings = {} /\ nshape.cands = "list"

====
